---- MODULE Spec2Model ----
(***************************************************************************)
(* Model of src/main.py: the linear pipeline that cleans the national      *)
(* charge point registry, aggregates chargers per year, derives the        *)
(* vehicle columns, joins both tables on the year and extracts the         *)
(* cars-to-chargers ratio stored under the key '2020'.                     *)
(*                                                                         *)
(* A DataFrame is a sequence of rows.  A charger row is a record that      *)
(* carries its index label; a vehicle row is a tuple addressed by column   *)
(* position, as main.py addresses it with iloc.  A timestamp               *)
(* 'YYYY-MM-DD 00:00:00' is the tuple <<YYYY, MM, DD>>.  A quotient of two *)
(* integer arrays is kept exact as [num, den]; den = 0 is numpy's inf/nan. *)
(***************************************************************************)
EXTENDS Integers, Sequences, FiniteSets, TLC

VARIABLES pc, error, registry, data_ev_chargers, data_ev_cars,
          chargers_installed, ev_merged, plug_array, ev_chargers_in_service,
          chargers_avail, ratio, ratio_2020_dict

vars == <<pc, error, registry, data_ev_chargers, data_ev_cars,
          chargers_installed, ev_merged, plug_array, ev_chargers_in_service,
          chargers_avail, ratio, ratio_2020_dict>>

----------------------------------------------------------------------------
(* Bounds of the input tables *)

MaxBase == 9

MaxExtra == 1

MaxCars == 10

(* Program constants *)

PartialYear == 2021

RatioIndex == 8

TargetYear == 2020

Sentinel == <<0, 0, 0>>

InService == "In service"

NaN == <<>>

----------------------------------------------------------------------------
(* Generic helpers: pandas / numpy primitives *)

RECURSIVE SumSeq(_)
SumSeq(s) == IF s = <<>> THEN 0 ELSE Head(s) + SumSeq(Tail(s))

Min(S) == CHOOSE x \in S : \A y \in S : x <= y

RECURSIVE SortedSeq(_)
SortedSeq(S) == IF S = {} THEN <<>>
                ELSE <<Min(S)>> \o SortedSeq(S \ {Min(S)})

RECURSIVE FirstSeen(_)
FirstSeen(s) ==
    IF s = <<>> THEN <<>>
    ELSE <<Head(s)>> \o FirstSeen(SelectSeq(Tail(s), LAMBDA x : x # Head(s)))

Column(df, name) == [i \in 1..Len(df) |-> df[i][name]]

NoCumsum(s) == s

Cumsum(s) == [i \in 1..Len(s) |-> SumSeq(SubSeq(s, 1, i))]

----------------------------------------------------------------------------
(* Cleaning: lines 45-54 *)

SentinelIndex(df) == {df[i].index : i \in {j \in 1..Len(df) : df[j].dateCreated = Sentinel}}

DropNotInplace(df, labels) == df

DropRows(df, labels) == SelectSeq(df, LAMBDA r : r.index \notin labels)

Parseable(d) == d[1] >= 1678 /\ d[1] <= 2261 /\ d[2] \in 1..12 /\ d[3] \in 1..31

Year(d) == d[1]

WithYear(df) ==
    [i \in 1..Len(df) |->
        [index |-> df[i].index, chargeDeviceID |-> df[i].chargeDeviceID,
         chargeDeviceStatus |-> df[i].chargeDeviceStatus,
         dateCreated |-> df[i].dateCreated,
         yearCreated |-> Year(df[i].dateCreated)]]

----------------------------------------------------------------------------
(* Aggregation: groupby('yearCreated')['chargeDeviceID'].count() *)

CountInServiceOnly(df, y) ==
    Cardinality({i \in 1..Len(df) : df[i].yearCreated = y
                    /\ df[i].chargeDeviceID # NaN
                    /\ df[i].chargeDeviceStatus = InService})

CountNonNull(df, y) ==
    Cardinality({i \in 1..Len(df) : df[i].yearCreated = y
                    /\ df[i].chargeDeviceID # NaN})

GroupKeysUnsorted(df) == FirstSeen(Column(df, "yearCreated"))

GroupKeys(df) == SortedSeq({df[i].yearCreated : i \in 1..Len(df)})

GroupByCount(df) ==
    LET keys == GroupKeys(df)
    IN  [i \in 1..Len(keys) |-> [yearCreated |-> keys[i], n |-> CountNonNull(df, keys[i])]]

Installed(df) ==
    LET g == GroupByCount(df)
        c == Cumsum(Column(g, "n"))
    IN  [i \in 1..Len(g) |->
            [yearCreated |-> g[i].yearCreated, num_charges |-> g[i].n,
             rollingSUM |-> c[i]]]

----------------------------------------------------------------------------
(* Vehicle columns: lines 65 and 68.  Column positions are 0-based in      *)
(* main.py and 1-based here: Date is 1, Battery Electric 2, Plug-in Hybrid *)
(* 3, the four sub-categories 4..7, otherULEVs 8, plug_rollingSUM 9.       *)

OtherULEVsShifted(row) == SumSeq(SubSeq(row, 3, 6))

OtherULEVs(row) == SumSeq(SubSeq(row, 4, 7))

PlugSum(row) == SumSeq(SubSeq(row, 2, 3))

AddOtherULEVs(df) == [i \in 1..Len(df) |-> Append(df[i], OtherULEVs(df[i]))]

AddPlugRollingSum(df) ==
    LET c == Cumsum([i \in 1..Len(df) |-> PlugSum(df[i])])
    IN  [i \in 1..Len(df) |-> Append(df[i], c[i])]

----------------------------------------------------------------------------
(* Join: line 137 *)

JoinRow(l, r) ==
    [yearCreated |-> l.yearCreated, num_charges |-> l.num_charges,
     rollingSUM |-> l.rollingSUM, Date |-> r[1], BatteryElectric |-> r[2],
     PlugInHybrid |-> r[3], otherULEVs |-> r[8], plug_rollingSUM |-> r[9]]

RECURSIVE Flatten(_)
Flatten(ss) == IF ss = <<>> THEN <<>> ELSE Head(ss) \o Flatten(Tail(ss))

MatchesOf(l, right) ==
    LET hits == SelectSeq(right, LAMBDA r : r[1] = l.yearCreated)
    IN  [j \in 1..Len(hits) |-> JoinRow(l, hits[j])]

MergeOnPosition(left, right) ==
    LET n == IF Len(left) <= Len(right) THEN Len(left) ELSE Len(right)
    IN  [i \in 1..n |-> JoinRow(left[i], right[i])]

MergeInner(left, right) ==
    Flatten([i \in 1..Len(left) |-> MatchesOf(left[i], right)])

----------------------------------------------------------------------------
(* Ratio: lines 165-182 *)

FilterInServiceAnyYear(df) ==
    SelectSeq(df, LAMBDA r : r.chargeDeviceStatus = InService)

FilterInService(df) ==
    SelectSeq(df, LAMBDA r : r.chargeDeviceStatus = InService
                             /\ r.yearCreated # PartialYear)

InServiceAgg(df) ==
    LET g == GroupByCount(df)
        c == Cumsum(Column(g, "n"))
    IN  [i \in 1..Len(g) |->
            [yearCreated |-> g[i].yearCreated, num_charges_in_service |-> g[i].n,
             rollingSUM_in_service |-> c[i]]]

Broadcastable(a, b) == Len(a) = Len(b) \/ Len(a) = 1 \/ Len(b) = 1

BroadcastLen(a, b) ==
    IF Len(a) = Len(b) THEN Len(a)
    ELSE IF Len(a) = 1 THEN Len(b) ELSE Len(a)

At(a, i) == IF Len(a) = 1 THEN a[1] ELSE a[i]

Divide(a, b) ==
    [i \in 1..BroadcastLen(a, b) |-> [num |-> At(a, i), den |-> At(b, i)]]

----------------------------------------------------------------------------
(* Input tables *)

NoDict == [k \in {} |-> 0]

Stamp(y) == <<y, 6, 15>>

BaseFirstYears == {2011, 2012}

ExtraDates == {Sentinel, Stamp(2012), Stamp(2014), Stamp(PartialYear)}

Statuses == {InService, "Out of service"}

CarFirstYears == {2012, 2013}

CarCounts == {<<1, 2, 1, 2, 3, 4>>, <<3, 0, 0, 5, 0, 2>>}

ExtraRows == [dateCreated : ExtraDates, chargeDeviceStatus : Statuses]

BaseRows(first, len) ==
    [i \in 1..len |-> [dateCreated |-> Stamp(first + i - 1),
                       chargeDeviceStatus |-> InService]]

ReadCsv(raw) ==
    [i \in 1..Len(raw) |->
        [index |-> i - 1, chargeDeviceID |-> <<i>>,
         chargeDeviceStatus |-> raw[i].chargeDeviceStatus,
         dateCreated |-> raw[i].dateCreated]]

ReadExcel(first, len, odd, even) ==
    [i \in 1..len |-> <<first + i - 1>> \o (IF i % 2 = 1 THEN odd ELSE even)]

ExtraSeqs == UNION {[1..n -> ExtraRows] : n \in 0..MaxExtra}

Init ==
    /\ pc = "drop"
    /\ error = "none"
    /\ \E first \in BaseFirstYears, len \in 0..MaxBase, extra \in ExtraSeqs :
          registry = ReadCsv(extra \o BaseRows(first, len))
    /\ data_ev_chargers = registry
    /\ \E first \in CarFirstYears, len \in 0..MaxCars, odd \in CarCounts, even \in CarCounts :
          data_ev_cars = ReadExcel(first, len, odd, even)
    /\ chargers_installed = <<>>
    /\ ev_merged = <<>>
    /\ plug_array = <<>>
    /\ ev_chargers_in_service = <<>>
    /\ chargers_avail = <<>>
    /\ ratio = <<>>
    /\ ratio_2020_dict = NoDict

----------------------------------------------------------------------------
(* Steps of the script *)

DropSentinel ==
    /\ pc = "drop" /\ error = "none"
    /\ data_ev_chargers' = DropRows(data_ev_chargers, SentinelIndex(data_ev_chargers))
    /\ pc' = "year"
    /\ UNCHANGED <<error, registry, data_ev_cars, chargers_installed, ev_merged,
                   plug_array, ev_chargers_in_service, chargers_avail, ratio,
                   ratio_2020_dict>>

AddYearCreated ==
    /\ pc = "year" /\ error = "none"
    /\ IF \A i \in 1..Len(data_ev_chargers) : Parseable(data_ev_chargers[i].dateCreated)
       THEN /\ data_ev_chargers' = WithYear(data_ev_chargers)
            /\ pc' = "group"
            /\ error' = error
       ELSE /\ error' = "OutOfBoundsDatetime"
            /\ UNCHANGED <<pc, data_ev_chargers>>
    /\ UNCHANGED <<registry, data_ev_cars, chargers_installed, ev_merged,
                   plug_array, ev_chargers_in_service, chargers_avail, ratio,
                   ratio_2020_dict>>

ChargersInstalled ==
    /\ pc = "group" /\ error = "none"
    /\ chargers_installed' = Installed(data_ev_chargers)
    /\ pc' = "cars"
    /\ UNCHANGED <<error, registry, data_ev_chargers, data_ev_cars, ev_merged,
                   plug_array, ev_chargers_in_service, chargers_avail, ratio,
                   ratio_2020_dict>>

CarsColumns ==
    /\ pc = "cars" /\ error = "none"
    /\ data_ev_cars' = AddPlugRollingSum(AddOtherULEVs(data_ev_cars))
    /\ pc' = "merge"
    /\ UNCHANGED <<error, registry, data_ev_chargers, chargers_installed, ev_merged,
                   plug_array, ev_chargers_in_service, chargers_avail, ratio,
                   ratio_2020_dict>>

Merge ==
    /\ pc = "merge" /\ error = "none"
    /\ ev_merged' = MergeInner(chargers_installed, data_ev_cars)
    /\ pc' = "arrays"
    /\ UNCHANGED <<error, registry, data_ev_chargers, data_ev_cars, chargers_installed,
                   plug_array, ev_chargers_in_service, chargers_avail, ratio,
                   ratio_2020_dict>>

RatioArrays ==
    /\ pc = "arrays" /\ error = "none"
    /\ plug_array' = Column(ev_merged, "plug_rollingSUM")
    /\ ev_chargers_in_service' = InServiceAgg(FilterInService(data_ev_chargers))
    /\ chargers_avail' = Column(ev_chargers_in_service', "rollingSUM_in_service")
    /\ pc' = "ratio"
    /\ UNCHANGED <<error, registry, data_ev_chargers, data_ev_cars, chargers_installed,
                   ev_merged, ratio, ratio_2020_dict>>

Ratio ==
    /\ pc = "ratio" /\ error = "none"
    /\ IF Broadcastable(plug_array, chargers_avail)
       THEN /\ ratio' = Divide(plug_array, chargers_avail)
            /\ pc' = "extract"
            /\ error' = error
       ELSE /\ error' = "ValueError"
            /\ UNCHANGED <<pc, ratio>>
    /\ UNCHANGED <<registry, data_ev_chargers, data_ev_cars, chargers_installed,
                   ev_merged, plug_array, ev_chargers_in_service, chargers_avail,
                   ratio_2020_dict>>

Extract ==
    /\ pc = "extract" /\ error = "none"
    /\ IF RatioIndex < Len(ratio)
       THEN /\ ratio_2020_dict' = [k \in {"2020"} |-> ratio[RatioIndex + 1]]
            /\ pc' = "done"
            /\ error' = error
       ELSE /\ error' = "IndexError"
            /\ UNCHANGED <<pc, ratio_2020_dict>>
    /\ UNCHANGED <<registry, data_ev_chargers, data_ev_cars, chargers_installed,
                   ev_merged, plug_array, ev_chargers_in_service, chargers_avail,
                   ratio>>

Next ==
    \/ DropSentinel
    \/ AddYearCreated
    \/ ChargersInstalled
    \/ CarsColumns
    \/ Merge
    \/ RatioArrays
    \/ Ratio
    \/ Extract

Spec == Init /\ [][Next]_vars

----------------------------------------------------------------------------
(* Vocabulary of the properties *)

AfterDrop == {"year", "group", "cars", "merge", "arrays", "ratio", "extract", "done"}

AfterGroup == {"cars", "merge", "arrays", "ratio", "extract", "done"}

AfterCars == {"merge", "arrays", "ratio", "extract", "done"}

AfterMerge == {"arrays", "ratio", "extract", "done"}

AfterArrays == {"ratio", "extract", "done"}

(* Positions of the registry rows that cleaning keeps, read off the input *)
CleanedPos == {i \in 1..Len(registry) : registry[i].dateCreated # Sentinel}

RegYear(i) == registry[i].dateCreated[1]

CleanedYears == {RegYear(i) : i \in CleanedPos}

InServicePos == {i \in CleanedPos : registry[i].chargeDeviceStatus = InService
                                     /\ RegYear(i) # PartialYear}

InServiceYears == {RegYear(i) : i \in InServicePos}

HadSentinel == \E i \in 1..Len(registry) : registry[i].dateCreated = Sentinel

(* C1: once the cleaning step has run, no row of the charger table carries
   the sentinel date, at any later step of the run. *)
C1_NoSentinelAfterCleaning ==
    pc \in AfterDrop =>
        \A i \in 1..Len(data_ev_chargers) : data_ev_chargers[i].dateCreated # Sentinel

C1_Witness ==
    /\ pc = "done"
    /\ HadSentinel
    /\ Len(data_ev_chargers) < Len(registry)

(* C2: chargers_installed has exactly one row per distinct year of the
   cleaned rows, in ascending year order; num_charges is the number of
   cleaned rows of the year and rollingSUM the number of cleaned rows of
   that year and all earlier years. *)
C2_YearlyChargerCount ==
    pc \in AfterGroup =>
        /\ Len(chargers_installed) = Cardinality(CleanedYears)
        /\ \A i \in 1..Len(chargers_installed) :
              /\ chargers_installed[i].yearCreated \in CleanedYears
              /\ i > 1 => chargers_installed[i - 1].yearCreated < chargers_installed[i].yearCreated
              /\ chargers_installed[i].num_charges =
                    Cardinality({j \in CleanedPos : RegYear(j) = chargers_installed[i].yearCreated})
              /\ chargers_installed[i].rollingSUM =
                    Cardinality({j \in CleanedPos : RegYear(j) <= chargers_installed[i].yearCreated})

C2_Witness ==
    /\ pc \in AfterGroup
    /\ Len(chargers_installed) >= 2
    /\ chargers_installed[1].num_charges = 1
    /\ chargers_installed[2].num_charges = 2
    /\ chargers_installed[2].rollingSUM = 3
    /\ registry[1].dateCreated[1] > registry[2].dateCreated[1]

(* C3: the num_charges of all rows of chargers_installed add up to the
   number of rows left after the sentinel rows are dropped. *)
C3_CountsAddUp ==
    pc \in AfterGroup =>
        SumSeq(Column(chargers_installed, "num_charges")) = Cardinality(CleanedPos)

C3_Witness ==
    /\ pc \in AfterGroup
    /\ HadSentinel
    /\ Len(chargers_installed) >= 2
    /\ Cardinality(CleanedPos) < Len(registry)

(* C4: every joined row has yearCreated = Date, and the years of ev_merged
   are exactly the years present in both chargers_installed and the vehicle
   table. *)
C4_JoinCorrect ==
    pc \in AfterMerge =>
        /\ \A i \in 1..Len(ev_merged) : ev_merged[i].yearCreated = ev_merged[i].Date
        /\ {ev_merged[i].Date : i \in 1..Len(ev_merged)} =
              {chargers_installed[i].yearCreated : i \in 1..Len(chargers_installed)}
              \cap {data_ev_cars[i][1] : i \in 1..Len(data_ev_cars)}

C4_Witness ==
    /\ pc \in AfterMerge
    /\ Len(ev_merged) >= 2
    /\ \E i \in 1..Len(chargers_installed) :
          \A j \in 1..Len(data_ev_cars) : data_ev_cars[j][1] # chargers_installed[i].yearCreated
    /\ \E j \in 1..Len(data_ev_cars) :
          \A i \in 1..Len(chargers_installed) : data_ev_cars[j][1] # chargers_installed[i].yearCreated

(* C5: whenever ev_merged has fewer than 9 rows the run ends in an error
   and no value is stored under '2020'; so a run that completes has a
   joined table of at least 9 rows. *)
C5_ShortJoinRaises ==
    Len(ev_merged) < RatioIndex + 1 => (pc # "done" /\ DOMAIN ratio_2020_dict = {})

(* C6: whenever the run completes, the value under '2020' is the
   plug_rollingSUM of the year-2020 row divided by the number of in-service
   chargers created through 2020. *)
C6_RatioIsOf2020 ==
    pc = "done" =>
        \E i \in 1..Len(data_ev_cars) :
            /\ data_ev_cars[i][1] = TargetYear
            /\ ratio_2020_dict["2020"].den # 0
            /\ ratio_2020_dict["2020"].num * Cardinality({j \in InServicePos : RegYear(j) <= TargetYear})
                  = data_ev_cars[i][9] * ratio_2020_dict["2020"].den

(* C7: down the rows of chargers_installed rollingSUM never decreases, and
   it exceeds the previous row's rollingSUM exactly where num_charges > 0. *)
C7_RollingSumMonotone ==
    pc \in AfterGroup =>
        \A i \in 2..Len(chargers_installed) :
            /\ chargers_installed[i - 1].rollingSUM <= chargers_installed[i].rollingSUM
            /\ (chargers_installed[i - 1].rollingSUM < chargers_installed[i].rollingSUM)
                  <=> (chargers_installed[i].num_charges > 0)

C7_Witness ==
    /\ pc \in AfterGroup
    /\ Len(chargers_installed) >= 3
    /\ chargers_installed[1].num_charges > chargers_installed[2].num_charges

(* C8: otherULEVs of every vehicle row is the sum of the four sub-category
   columns (positions 3 to 6) of that row, without the Battery Electric and
   Plug-in Hybrid columns. *)
C8_OtherULEVs ==
    pc \in AfterCars =>
        \A i \in 1..Len(data_ev_cars) :
            data_ev_cars[i][8] = data_ev_cars[i][4] + data_ev_cars[i][5]
                                 + data_ev_cars[i][6] + data_ev_cars[i][7]

C8_Witness ==
    /\ pc \in AfterCars
    /\ \E i \in 1..Len(data_ev_cars) :
          /\ SubSeq(data_ev_cars[i], 4, 7) = <<1, 2, 3, 4>>
          /\ data_ev_cars[i][8] = 10
          /\ data_ev_cars[i][2] + data_ev_cars[i][3] > 0

(* C9: the in-service aggregate counts exactly the cleaned rows that are
   'In service' and not of 2021: no row for 2021, per-year counts, running
   sums in ascending year order, each at most rollingSUM of the same year
   in chargers_installed. *)
C9_InServiceAggregate ==
    pc \in AfterArrays =>
        /\ Len(ev_chargers_in_service) = Cardinality(InServiceYears)
        /\ \A i \in 1..Len(ev_chargers_in_service) :
              LET r == ev_chargers_in_service[i]
              IN  /\ r.yearCreated # PartialYear
                  /\ r.yearCreated \in InServiceYears
                  /\ i > 1 => ev_chargers_in_service[i - 1].yearCreated < r.yearCreated
                  /\ r.num_charges_in_service =
                        Cardinality({j \in InServicePos : RegYear(j) = r.yearCreated})
                  /\ r.rollingSUM_in_service =
                        Cardinality({j \in InServicePos : RegYear(j) <= r.yearCreated})
                  /\ \E k \in 1..Len(chargers_installed) :
                        /\ chargers_installed[k].yearCreated = r.yearCreated
                        /\ r.rollingSUM_in_service <= chargers_installed[k].rollingSUM

C9_Witness ==
    /\ pc \in AfterArrays
    /\ Len(ev_chargers_in_service) >= 2
    /\ \E i \in CleanedPos : RegYear(i) = PartialYear
                             /\ registry[i].chargeDeviceStatus = InService

(* C10: when the division is reached, plug_array and chargers_avail have
   the same length and position i of both belongs to the same year. *)
C10_ArraysAligned ==
    pc \in AfterArrays =>
        /\ Len(plug_array) = Len(chargers_avail)
        /\ \A i \in 1..Len(ev_merged) :
              i <= Len(ev_chargers_in_service) =>
                  ev_merged[i].yearCreated = ev_chargers_in_service[i].yearCreated

====
